---- MODULE Spec2Model ----
(***************************************************************************)
(* Model of src/linux.rs: the cgroup CPU-quota resolution of num_cpus on   *)
(* Linux (Subsys, MountInfo, Cgroup, load_cgroups), the cached resolver    *)
(* (ONCE, CGROUPS_CPUS, cgroups_num_cpus, init_cgroups) and the public     *)
(* counters get_num_cpus and get_num_physical_cpus.                        *)
(*                                                                         *)
(* Text.  A Rust string is a sequence of symbols.  A symbol is one         *)
(* character ("/", ":", ",", " ", "-", "+", ".", "\n", a digit) or one     *)
(* indivisible word ("cpu", "cgroup", "docker", ...), so "cgroup2" is      *)
(* <<"cgroup", "2">> and "01abcd-other-dir" is <<"01abcd", "-other-dir">>. *)
(* Splitting, trimming, parsing and path lexing work on these sequences    *)
(* as the library functions work on characters.                            *)
(*                                                                         *)
(* Numbers.  usize is 64 bits wide and f64 carries a 53-bit significand;   *)
(* the model keeps both kinds of arithmetic with the widths WordBits and   *)
(* MantBits (MantBits < WordBits), and u32 with the width U32Bits.         *)
(***************************************************************************)
EXTENDS Integers, Sequences, FiniteSets, TLC

VARIABLES
    fs,            \* the files the program reads: path -> content
    host,          \* what sched_getaffinity / sysconf answer on this machine
    threads,       \* the threads of the process
    ONCE,          \* state of the Once in cgroups_num_cpus
    CGROUPS_CPUS,  \* the AtomicUsize cache
    pc,            \* per thread: where it is inside a call
    api,           \* per thread: the function it called last
    quota,         \* per thread: init_cgroups' local result of load_cgroups
    ret,           \* per thread: the value its last call returned
    stale,         \* per thread: the files no longer give what the call returned
    init_runs,     \* how often init_cgroups was entered (saturates at 2)
    stores,        \* how often CGROUPS_CPUS was stored to (saturates at 2)
    loads,         \* how often load_cgroups read the files (saturates at 2)
    first_ret,     \* what the first completed cgroups_num_cpus returned
    arg,           \* input of the function under test (function harnesses)
    out            \* its result

vars == <<fs, host, threads, ONCE, CGROUPS_CPUS, pc, api, quota, ret, stale,
          init_runs, stores, loads, first_ret, arg, out>>

procVars == <<fs, host, threads, ONCE, CGROUPS_CPUS, pc, api, quota, ret, stale,
              init_runs, stores, loads, first_ret>>

-----------------------------------------------------------------------------
(* Option<T>: None is the empty tuple, Some(v) the one-element tuple.        *)

None == <<>>

Some(v) == <<v>>

IsSome(o) == Len(o) = 1

Unwrap(o) == o[1]

-----------------------------------------------------------------------------
(* Bounds of the model.                                                      *)

\* width of usize in the model
WordBits == 6

\* width of the f64 significand in the model
MantBits == 4

\* width of u32 in the model
U32Bits == 3

\* threads of the concurrent specification
NThreads == 2

\* longest mount root / subsystem path of the path-translation harness
MaxRootLen == 3

MaxBaseLen == 4

\* CPUs a host of the model can have
MaxCpus == 3

RECURSIVE Pow2(_)
Pow2(n) == IF n = 0 THEN 1 ELSE 2 * Pow2(n - 1)

MaxUsize == Pow2(WordBits) - 1

MaxU32 == Pow2(U32Bits) - 1

Min(a, b) == IF a <= b THEN a ELSE b

-----------------------------------------------------------------------------
(* str primitives                                                            *)

\* position of the first occurrence of symbol c in s, 0 when there is none
IndexOf(s, c) ==
    IF \E i \in 1..Len(s) : s[i] = c
    THEN CHOOSE i \in 1..Len(s) : s[i] = c /\ \A j \in 1..(i - 1) : s[j] # c
    ELSE 0

\* str::split(c): the pieces between occurrences of c, at least one piece
RECURSIVE Split(_, _)
Split(s, c) ==
    LET i == IndexOf(s, c)
    IN  IF i = 0 THEN <<s>>
        ELSE <<SubSeq(s, 1, i - 1)>> \o Split(SubSeq(s, i + 1, Len(s)), c)

\* iter.any(|x| x == v)
AnyEq(seq, v) == \E i \in 1..Len(seq) : seq[i] = v

Whitespace == {" ", "\n", "\t", "\r"}

\* str::trim
RECURSIVE TrimStart(_)
TrimStart(s) ==
    IF s # <<>> /\ s[1] \in Whitespace THEN TrimStart(Tail(s)) ELSE s

RECURSIVE TrimEnd(_)
TrimEnd(s) ==
    IF s # <<>> /\ s[Len(s)] \in Whitespace
    THEN TrimEnd(SubSeq(s, 1, Len(s) - 1)) ELSE s

Trim(s) == TrimEnd(TrimStart(s))

Digits == <<"0", "1", "2", "3", "4", "5", "6", "7", "8", "9">>

IsDigit(c) == \E d \in 1..10 : Digits[d] = c

DigitVal(c) == (CHOOSE d \in 1..10 : Digits[d] = c) - 1

\* the digit loop of from_str_radix: None on a non-digit or on overflow of max
RECURSIVE ParseDigits(_, _, _)
ParseDigits(s, acc, max) ==
    IF s = <<>> THEN Some(acc)
    ELSE IF ~IsDigit(s[1]) THEN None
    ELSE LET next == acc * 10 + DigitVal(s[1])
         IN  IF next > max THEN None ELSE ParseDigits(Tail(s), next, max)

\* str::parse::<unsigned>(): an optional "+", then one or more digits
ParseUnsigned(s, max) ==
    LET body == IF s # <<>> /\ s[1] = "+" THEN Tail(s) ELSE s
    IN  IF body = <<>> THEN None ELSE ParseDigits(body, 0, max)

ParseUsize(s) == ParseUnsigned(s, MaxUsize)

ParseU32(s) == ParseUnsigned(s, MaxU32)

\* str::lines(): split at "\n", a final empty piece dropped, a trailing "\r" cut
StripCr(l) == IF l # <<>> /\ l[Len(l)] = "\r" THEN SubSeq(l, 1, Len(l) - 1) ELSE l

Lines(s) ==
    LET parts == Split(s, "\n")
        kept  == IF parts[Len(parts)] = <<>>
                 THEN SubSeq(parts, 1, Len(parts) - 1) ELSE parts
    IN  [i \in 1..Len(kept) |-> StripCr(kept[i])]

-----------------------------------------------------------------------------
(* std::path: a path is lexed into components.  RootDir is <<"/">>, CurDir  *)
(* <<".">>, every other component the symbols of its name.                  *)

RootDir == <<"/">>

CurDir == <<".">>

HasRoot(s) == s # <<>> /\ s[1] = "/"

NormalPiece(p) == p # <<>> /\ p # CurDir

\* Path::components(): repeated and trailing separators vanish, "." vanishes
\* except as the first component of a relative path
Components(s) ==
    LET pieces == Split(s, "/")
        head   == IF HasRoot(s) THEN <<RootDir>>
                  ELSE IF pieces[1] = CurDir THEN <<CurDir>>
                  ELSE <<>>
    IN  head \o SelectSeq(pieces, NormalPiece)

\* iter_after: the components of `it` left after the components of `prefix`
RECURSIVE IterAfter(_, _)
IterAfter(it, prefix) ==
    IF prefix = <<>> THEN Some(it)
    ELSE IF it = <<>> THEN None
    ELSE IF it[1] = prefix[1] THEN IterAfter(Tail(it), Tail(prefix))
    ELSE None

\* strip_prefix comparing the two strings symbol by symbol, not by component
StripPrefixByString(path, base) ==
    IF Len(base) <= Len(path) /\ SubSeq(path, 1, Len(base)) = base
    THEN Some(Components(SubSeq(path, Len(base) + 1, Len(path))))
    ELSE None

\* Path::strip_prefix
StripPrefix(path, base) == IterAfter(Components(path), Components(base))

\* PathBuf::push on lexed paths: an absolute path replaces the buffer
Push(buf, rel) ==
    IF rel # <<>> /\ rel[1] = RootDir THEN rel
    ELSE IF rel # <<>> /\ rel[1] = CurDir /\ buf # <<>> THEN buf \o Tail(rel)
    ELSE buf \o rel

-----------------------------------------------------------------------------
(* The files.  fs maps the lexed path of every existing file to its text.   *)

FileOpen(files, path) ==
    IF path \in DOMAIN files THEN Some(files[path]) ELSE None

\* BufReader::lines() over File::open(path): None when the open fails
ReadLines(files, path) ==
    LET f == FileOpen(files, path)
    IN  IF IsSome(f) THEN Some(Lines(Unwrap(f))) ELSE None

\* the Some(..) values of f over seq, in order (Iterator::filter_map)
RECURSIVE FilterMap(_, _)
FilterMap(F(_), seq) ==
    IF seq = <<>> THEN <<>>
    ELSE LET r == F(seq[1])
         IN  (IF IsSome(r) THEN <<Unwrap(r)>> ELSE <<>>) \o FilterMap(F, Tail(seq))

-----------------------------------------------------------------------------
(* CgroupVersion, Subsys, MountInfo, Cgroup                                 *)

V1 == "V1"

V2 == "V2"

CgroupVersion == {V1, V2}

\* Subsys::parse_line
SubsysParseLine(line) ==
    LET fields == Split(line, ":")
    IN  IF Len(fields) < 2 THEN None
        ELSE LET sub_systems == fields[2]
                 version == IF sub_systems = <<>> THEN V2 ELSE V1
             IN  IF version = V1 /\ ~AnyEq(Split(sub_systems, ","), <<"cpu">>)
                 THEN None
                 ELSE IF Len(fields) < 3 THEN None
                 ELSE Some([version |-> version, base |-> fields[3]])

\* the fold keeping whatever it found first
SubsysFoldStepFirstWins(previous, line) ==
    IF IsSome(previous) THEN previous ELSE Some(line)

\* the closure folded over the parsed lines in Subsys::load_cpu
SubsysFoldStep(previous, line) ==
    IF IsSome(previous) /\ line.version = V2 THEN previous ELSE Some(line)

\* Iterator::fold; each step's accumulator is computed before the next step
RECURSIVE Fold(_, _, _)
Fold(F(_, _), acc, seq) ==
    IF seq = <<>> THEN acc
    ELSE CHOOSE r \in {Fold(F, a, rest) : a \in {F(acc, seq[1])}, rest \in {Tail(seq)}} :
             TRUE

\* Subsys::load_cpu
SubsysLoadCpu(files, proc_path) ==
    LET lines == ReadLines(files, proc_path)
    IN  IF ~IsSome(lines) THEN None
        ELSE Fold(SubsysFoldStep, None, FilterMap(SubsysParseLine, Unwrap(lines)))

\* Iterator::find(|s| s == v) over seq from position `from`: its position, or 0
FindFrom(seq, from, v) ==
    IF \E i \in from..Len(seq) : seq[i] = v
    THEN CHOOSE i \in from..Len(seq) :
             seq[i] = v /\ \A j \in from..(i - 1) : seq[j] # v
    ELSE 0

\* parse_line expecting exactly one optional field before the separator
MountInfoParseLineOneOptional(line) ==
    LET fields == Split(line, " ")
    IN  IF Len(fields) < 9 \/ fields[8] # <<"-">> THEN None
        ELSE IF fields[9] = <<"cgroup">>
             THEN IF Len(fields) < 11 \/ ~AnyEq(Split(fields[11], ","), <<"cpu">>)
                  THEN None
                  ELSE Some([version |-> "V1", root |-> fields[4],
                             mount_point |-> fields[5]])
             ELSE IF fields[9] = <<"cgroup", "2">>
             THEN Some([version |-> "V2", root |-> fields[4],
                        mount_point |-> fields[5]])
             ELSE None

\* MountInfo::parse_line
MountInfoParseLine(line) ==
    LET fields == Split(line, " ")
    IN  IF Len(fields) < 5 THEN None
        ELSE LET mnt_root  == fields[4]
                 mnt_point == fields[5]
                 sep       == FindFrom(fields, 6, <<"-">>)
             IN  IF sep = 0 THEN None
                 ELSE IF Len(fields) < sep + 1 THEN None
                 ELSE LET fstype == fields[sep + 1]
                      IN  IF fstype = <<"cgroup">>
                          THEN IF Len(fields) < sep + 3 THEN None
                               ELSE IF ~AnyEq(Split(fields[sep + 3], ","), <<"cpu">>)
                                    THEN None
                                    ELSE Some([version |-> V1, root |-> mnt_root,
                                               mount_point |-> mnt_point])
                          ELSE IF fstype = <<"cgroup", "2">>
                          THEN Some([version |-> V2, root |-> mnt_root,
                                     mount_point |-> mnt_point])
                          ELSE None

\* find taking the first cgroup mount, whatever its version
FindAnyVersion(seq, version) ==
    IF seq = <<>> THEN None ELSE Some(seq[1])

\* Iterator::find(|mount_info| mount_info.version == version)
RECURSIVE FindVersion(_, _)
FindVersion(seq, version) ==
    IF seq = <<>> THEN None
    ELSE IF seq[1].version = version THEN Some(seq[1])
    ELSE FindVersion(Tail(seq), version)

\* MountInfo::load_cpu
MountInfoLoadCpu(files, proc_path, version) ==
    LET lines == ReadLines(files, proc_path)
    IN  IF ~IsSome(lines) THEN None
        ELSE FindVersion(FilterMap(MountInfoParseLine, Unwrap(lines)), version)

\* Cgroup::new
CgroupNew(version, dir) == [version |-> version, base |-> dir]

\* Cgroup::translate
CgroupTranslate(mntinfo, subsys) ==
    LET rel_from_root == StripPrefix(subsys.base, mntinfo.root)
    IN  IF ~IsSome(rel_from_root) THEN None
        ELSE Some(CgroupNew(mntinfo.version,
                            Push(Components(mntinfo.mount_point),
                                 Unwrap(rel_from_root))))

\* Cgroup::raw_param
RawParam(files, self, param) == FileOpen(files, Push(self.base, <<param>>))

\* Cgroup::param
Param(files, self, param) ==
    LET buf == RawParam(files, self, param)
    IN  IF ~IsSome(buf) THEN None ELSE ParseUsize(Trim(Unwrap(buf)))

\* Cgroup::quota_us
QuotaUs(files, self) == Param(files, self, <<"cpu.cfs_quota_us">>)

\* Cgroup::period_us
PeriodUs(files, self) == Param(files, self, <<"cpu.cfs_period_us">>)

\* Cgroup::max
CgroupMax(files, self) ==
    LET raw == RawParam(files, self, <<"cpu.max">>)
    IN  IF ~IsSome(raw) THEN None
        ELSE LET ls == Lines(Unwrap(raw))
             IN  IF ls = <<>> THEN None
                 ELSE LET max    == Split(ls[1], " ")
                          q      == ParseUsize(max[1])
                          period == IF Len(max) < 2 THEN None ELSE ParseUsize(max[2])
                      IN  IF ~IsSome(q) THEN None
                          ELSE IF ~IsSome(period) THEN None
                          ELSE Some(<<Unwrap(q), Unwrap(period)>>)

-----------------------------------------------------------------------------
(* f64.  A finite non-negative f64 is m * 2^e with m < 2^MantBits; the      *)
(* model carries it as the pair <<m, e>>.  Conversion and division round    *)
(* to nearest, ties to even, as IEEE 754 does.                              *)

\* n / d rounded to the nearest integer, ties to even
RoundHalfEven(n, d) ==
    LET q == n \div d
        r == n % d
    IN  IF 2 * r > d \/ (2 * r = d /\ q % 2 = 1) THEN q + 1 ELSE q

\* the largest k >= 0 with d * 2^k <= n   (n >= d > 0)
RECURSIVE Log2Up(_, _)
Log2Up(n, d) == IF 2 * d <= n THEN 1 + Log2Up(n, 2 * d) ELSE 0

\* the smallest k >= 0 with d <= n * 2^k   (n > 0, d > 0)
RECURSIVE Log2Down(_, _)
Log2Down(n, d) == IF n < d THEN 1 + Log2Down(2 * n, d) ELSE 0

\* the f64 nearest to the rational n / d   (n >= 0, d > 0)
F64Ratio(n, d) ==
    IF n = 0 THEN <<0, 0>>
    ELSE LET k == IF n >= d THEN Log2Up(n, d) ELSE 0 - Log2Down(n, d)
             e == k - (MantBits - 1)
         IN  IF e >= 0 THEN <<RoundHalfEven(n, d * Pow2(e)), e>>
             ELSE <<RoundHalfEven(n * Pow2(0 - e), d), e>>

\* usize as f64
AsF64(n) == F64Ratio(n, 1)

\* f64 / f64, the divisor not zero
F64Div(x, y) ==
    LET d == x[2] - y[2]
    IN  IF d >= 0 THEN F64Ratio(x[1] * Pow2(d), y[1])
        ELSE F64Ratio(x[1], y[1] * Pow2(0 - d))

\* rounding down where ceil rounds up
F64Floor(x) ==
    IF x[2] >= 0 THEN x
    ELSE <<x[1] \div Pow2(0 - x[2]), 0>>

\* f64::ceil
F64Ceil(x) ==
    IF x[2] >= 0 THEN x
    ELSE LET d == Pow2(0 - x[2])
         IN  <<(x[1] + d - 1) \div d, 0>>

\* f64 as usize, for an integral x: saturating (rustc 1.45 and later)
F64AsUsize(x) == Min(x[1] * Pow2(x[2]), MaxUsize)

\* Cgroup::cpu_quota
CpuQuota(files, self) ==
    LET pair == IF self.version = V1
                THEN LET q == QuotaUs(files, self)
                         p == PeriodUs(files, self)
                     IN  IF IsSome(q) /\ IsSome(p)
                         THEN Some(<<Unwrap(q), Unwrap(p)>>) ELSE None
                ELSE CgroupMax(files, self)
    IN  IF ~IsSome(pair) THEN None
        ELSE LET quota_us  == Unwrap(pair)[1]
                 period_us == Unwrap(pair)[2]
             IN  IF period_us = 0 THEN None
                 ELSE Some(F64AsUsize(F64Ceil(F64Div(AsF64(quota_us),
                                                     AsF64(period_us)))))

ProcSelfCgroup == <<RootDir, <<"proc">>, <<"self">>, <<"cgroup">>>>

ProcSelfMountinfo == <<RootDir, <<"proc">>, <<"self">>, <<"mountinfo">>>>

ProcCpuinfo == <<RootDir, <<"proc">>, <<"cpuinfo">>>>

\* load_cgroups from its last statement on: cgroup.cpu_quota()
LoadCgroupsQuota(files, subsys, mntinfo, cgroup) ==
    [subsys |-> subsys, mntinfo |-> mntinfo, cgroup |-> cgroup,
     result |-> IF ~IsSome(cgroup) THEN None ELSE CpuQuota(files, Unwrap(cgroup))]

\* load_cgroups from its third statement on: Cgroup::translate(mntinfo, subsys)
LoadCgroupsTranslate(files, subsys, mntinfo) ==
    LoadCgroupsQuota(files, subsys, mntinfo,
                     IF ~IsSome(mntinfo) THEN None
                     ELSE CgroupTranslate(Unwrap(mntinfo), Unwrap(subsys)))

\* load_cgroups from its second statement on: MountInfo::load_cpu
LoadCgroupsMountInfo(files, mountinfo_proc, subsys) ==
    LoadCgroupsTranslate(files, subsys,
                         IF ~IsSome(subsys) THEN None
                         ELSE MountInfoLoadCpu(files, mountinfo_proc,
                                               Unwrap(subsys).version))

\* the run of load_cgroups: what each of its steps produced
LoadCgroupsRun(files, cgroup_proc, mountinfo_proc) ==
    LoadCgroupsMountInfo(files, mountinfo_proc, SubsysLoadCpu(files, cgroup_proc))

\* load_cgroups
LoadCgroups(files, cgroup_proc, mountinfo_proc) ==
    LoadCgroupsRun(files, cgroup_proc, mountinfo_proc).result

-----------------------------------------------------------------------------
(* The public counters and the cached resolver                              *)

\* get_num_cpus
GetNumCpus == 2

\* logical_cpus: the CPUs of the affinity mask, or sysconf's count, at least 1
LogicalCpus(h) ==
    IF h.affinity_ok THEN h.nset
    ELSE IF h.sysconf < 1 THEN 1 ELSE h.sysconf

\* one turn of the line loop of get_num_physical_cpus; st.stop is its `break`
CpuinfoStep(st, line) ==
    IF st.stop THEN st
    ELSE LET it == Split(line, ":")
         IN  IF Len(it) < 2 THEN st
             ELSE LET key   == Trim(it[1])
                      value == Trim(it[2])
                      id    == ParseU32(value)
                      n     == ParseUsize(value)
                      s1    == IF key # <<"physical", " ", "id">> THEN st
                               ELSE IF IsSome(id)
                               THEN [st EXCEPT !.physid = Unwrap(id),
                                               !.chgcount = @ + 1]
                               ELSE [st EXCEPT !.stop = TRUE]
                      s2    == IF s1.stop \/ key # <<"cpu", " ", "cores">> THEN s1
                               ELSE IF IsSome(n)
                               THEN [s1 EXCEPT !.cores = Unwrap(n),
                                               !.chgcount = @ + 1]
                               ELSE [s1 EXCEPT !.stop = TRUE]
                  IN  IF ~s2.stop /\ s2.chgcount = 2
                      THEN [s2 EXCEPT !.map = (s2.physid :> s2.cores) @@ @,
                                      !.chgcount = 0]
                      ELSE s2

\* the sum of the map's values, unbounded
RECURSIVE MapSum(_)
MapSum(m) ==
    IF DOMAIN m = {} THEN 0
    ELSE LET k == CHOOSE x \in DOMAIN m : TRUE
         IN  m[k] + MapSum([x \in DOMAIN m \ {k} |-> m[x]])

\* get_num_physical_cpus returning the sum as it is, without the fallback
GetNumPhysicalCpusNoFallback(files, overflow_checks) ==
    LET lines == ReadLines(files, ProcCpuinfo)
    IN  IF ~IsSome(lines) THEN [panic |-> FALSE, val |-> GetNumCpus]
        ELSE LET st  == Fold(CpuinfoStep,
                             [map |-> [x \in {} |-> 0], physid |-> 0, cores |-> 0,
                              chgcount |-> 0, stop |-> FALSE],
                             Unwrap(lines))
                 sum == MapSum(st.map)
             IN  IF sum > MaxUsize /\ overflow_checks
                 THEN [panic |-> TRUE, val |-> 0]
                 ELSE [panic |-> FALSE, val |-> sum % (MaxUsize + 1)]

\* get_num_physical_cpus: [panic, val]; the usize sum panics on overflow in a
\* build with overflow checks and wraps in one without
GetNumPhysicalCpus(files, overflow_checks) ==
    LET lines == ReadLines(files, ProcCpuinfo)
    IN  IF ~IsSome(lines) THEN [panic |-> FALSE, val |-> GetNumCpus]
        ELSE LET st    == Fold(CpuinfoStep,
                               [map |-> [x \in {} |-> 0], physid |-> 0, cores |-> 0,
                                chgcount |-> 0, stop |-> FALSE],
                               Unwrap(lines))
                 sum   == MapSum(st.map)
                 count == sum % (MaxUsize + 1)
             IN  IF sum > MaxUsize /\ overflow_checks
                 THEN [panic |-> TRUE, val |-> 0]
                 ELSE [panic |-> FALSE,
                       val |-> IF count = 0 THEN GetNumCpus ELSE count]

\* the tail of cgroups_num_cpus: the cache value as an Option
CachedCpus(cpus) == IF cpus > 0 THEN Some(cpus) ELSE None

-----------------------------------------------------------------------------
(* Function harnesses: Init draws an input into arg, one action applies the *)
(* function and puts Some(result) into out.  The process stays unstarted.   *)

NoFiles == [path \in {} |-> <<>>]

ProcessUnstarted ==
    /\ fs = NoFiles
    /\ host = [affinity_ok |-> TRUE, nset |-> 1, sysconf |-> 1, miri |-> FALSE]
    /\ threads = {}
    /\ ONCE = "INCOMPLETE"
    /\ CGROUPS_CPUS = 0
    /\ pc = <<>>
    /\ api = <<>>
    /\ quota = <<>>
    /\ ret = <<>>
    /\ stale = <<>>
    /\ init_runs = 0
    /\ stores = 0
    /\ loads = 0
    /\ first_ret = None

\* decimal text of n, as the kernel prints it
RECURSIVE FormatNat(_)
FormatNat(n) ==
    IF n < 10 THEN <<Digits[n + 1]>>
    ELSE FormatNat(n \div 10) \o <<Digits[(n % 10) + 1]>>

CeilDiv(n, d) == (n + d - 1) \div d

(* ---- Cgroup::cpu_quota ---- *)

QuotaDir == <<RootDir, <<"sys">>, <<"cpu">>>>

\* the quota files of a cgroup of arg's version holding arg's quota and period
QuotaFiles(a) ==
    IF a.version = V1
    THEN (Push(QuotaDir, <<<<"cpu.cfs_quota_us">>>>) :> (FormatNat(a.quota) \o <<"\n">>))
         @@ (Push(QuotaDir, <<<<"cpu.cfs_period_us">>>>) :> (FormatNat(a.period) \o <<"\n">>))
    ELSE (Push(QuotaDir, <<<<"cpu.max">>>>)
              :> (FormatNat(a.quota) \o <<" ">> \o FormatNat(a.period) \o <<"\n">>))

InitQuota ==
    /\ ProcessUnstarted
    /\ arg \in [version : CgroupVersion, quota : 0..MaxUsize, period : 0..MaxUsize]
    /\ out = None

ApplyCpuQuota ==
    /\ out = None
    /\ out' = Some(CpuQuota(QuotaFiles(arg), CgroupNew(arg.version, QuotaDir)))
    /\ UNCHANGED <<arg, procVars>>

NextQuota == ApplyCpuQuota

SpecQuota == InitQuota /\ [][NextQuota]_vars

\* the integers an f64 holds exactly reach up to 2^MantBits
F64Exact == Pow2(MantBits)

\* C6 as stated: for every parsed quota and period, None when period = 0 and
\* otherwise Some(ceil(quota / period))
C6_AsStated ==
    IsSome(out) =>
        Unwrap(out) = IF arg.period = 0 THEN None
                      ELSE Some(CeilDiv(arg.quota, arg.period))

\* C6 amended: period = 0 gives None whatever the quota; with period > 0 and
\* quota and period both at most 2^MantBits (exact in f64) the result is
\* Some(ceil(quota / period)), rounded up and never floored
C6_CeilWhenExact ==
    IsSome(out) =>
        /\ arg.period = 0 => Unwrap(out) = None
        /\ (arg.period > 0 /\ arg.quota <= F64Exact /\ arg.period <= F64Exact)
               => Unwrap(out) = Some(CeilDiv(arg.quota, arg.period))

\* quota 11, period 10 (the 1100000 / 1000000 of the fixture, scaled) gives 2
C6_Witness ==
    /\ arg.quota = 11 /\ arg.period = 10
    /\ out = Some(Some(2))

(* ---- text of the input files ---- *)

\* the strings of seq joined by the symbol sep
RECURSIVE Join(_, _)
Join(seq, sep) ==
    IF seq = <<>> THEN <<>>
    ELSE IF Len(seq) = 1 THEN seq[1]
    ELSE seq[1] \o <<sep>> \o Join(Tail(seq), sep)

\* a file of the given lines, each ended by a newline
RECURSIVE FileOf(_)
FileOf(lines) ==
    IF lines = <<>> THEN <<>> ELSE lines[1] \o <<"\n">> \o FileOf(Tail(lines))

\* all sequences over S of length 0..n
SeqsUpTo(S, n) == UNION {[1..k -> S] : k \in 0..n}

(* ---- Subsys::load_cpu ---- *)

\* longest membership descriptor of the harness, in lines
MaxSubsysLines == 3

CgV1Cpu == <<"1", "1", ":", "cpu", ",", "cpuacct", ":", "/">>

CgV1CpuA == <<"4", ":", "cpu", ":", "/", "a">>

CgV1Memory == <<"3", ":", "memory", ":", "/">>

CgV1Cpuacct == <<"2", ":", "cpuacct", ":", "/">>

CgV2 == <<"0", ":", ":", "/">>

CgV2B == <<"0", ":", ":", "/", "b">>

CgNoPath == <<"5", ":", "cpu">>

CgGarbage == <<"garbage">>

SubsysLines ==
    {CgV1Cpu, CgV1CpuA, CgV1Memory, CgV1Cpuacct, CgV2, CgV2B, CgNoPath, CgGarbage, <<>>}

InitSubsys ==
    /\ ProcessUnstarted
    /\ arg \in [readable : {TRUE}, lines : SeqsUpTo(SubsysLines, MaxSubsysLines)]
               \cup {[readable |-> FALSE, lines |-> <<>>]}
    /\ out = None

SubsysFiles(a) ==
    IF a.readable THEN ProcSelfCgroup :> FileOf(a.lines) ELSE NoFiles

ApplySubsysLoadCpu ==
    /\ out = None
    /\ out' = Some(SubsysLoadCpu(SubsysFiles(arg), ProcSelfCgroup))
    /\ UNCHANGED <<arg, procVars>>

NextSubsys == ApplySubsysLoadCpu

SpecSubsys == InitSubsys /\ [][NextSubsys]_vars

\* a line "<id>:<controllers>:<path>" whose controller list names "cpu"
IsV1CpuLine(l) ==
    LET f == Split(l, ":")
    IN  Len(f) >= 3 /\ f[2] # <<>> /\ \E c \in 1..Len(Split(f[2], ",")) :
                                          Split(f[2], ",")[c] = <<"cpu">>

\* a line "<id>::<path>", its controller list empty
IsV2Line(l) ==
    LET f == Split(l, ":") IN Len(f) >= 3 /\ f[2] = <<>>

\* C7: Subsys::load_cpu returns a V1 Subsys iff some line is a V1 "cpu" line,
\* wherever it stands among the V2 lines; a V2 Subsys iff no V1 "cpu" line
\* exists and some V2 line does; None iff no line qualifies
C7_V1Preferred ==
    IsSome(out) =>
        LET r     == Unwrap(out)
            hasV1 == \E i \in 1..Len(arg.lines) : IsV1CpuLine(arg.lines[i])
            hasV2 == \E i \in 1..Len(arg.lines) : IsV2Line(arg.lines[i])
        IN  /\ (IsSome(r) /\ Unwrap(r).version = V1) <=> hasV1
            /\ (IsSome(r) /\ Unwrap(r).version = V2) <=> (~hasV1 /\ hasV2)
            /\ (r = None) <=> (~hasV1 /\ ~hasV2)

\* a V2 line, then a V1 "cpu" line, then a V2 line again: the result is V1
C7_Witness ==
    /\ arg.lines = <<CgV2, CgV1Cpu, CgV2B>>
    /\ out = Some(Some([version |-> V1, base |-> <<"/">>]))

(* ---- MountInfo::load_cpu ---- *)

\* longest mount table of the harness, in lines
MaxMountLines == 3

MntCpu == <<"/", "sys", "/", "fs", "/", "cgroup", "/", "cpu", ",", "cpuacct">>

MntUnified == <<"/", "sys", "/", "fs", "/", "cgroup">>

RwCpu == <<"rw", ",", "cpu", ",", "cpuacct">>

\* 7 5 0:6 / /sys/fs/cgroup/cpu,cpuacct rw shared:7 - cgroup cgroup rw,cpu,cpuacct
MiV1OneOpt ==
    Join(<<<<"7">>, <<"5">>, <<"0", ":", "6">>, <<"/">>, MntCpu, <<"rw">>,
           <<"shared", ":", "7">>, <<"-">>, <<"cgroup">>, <<"cgroup">>, RwCpu>>, " ")

\* the same mount with no optional field, mounted at /m0 with root /a
MiV1ZeroOpt ==
    Join(<<<<"7">>, <<"5">>, <<"0", ":", "6">>, <<"/", "a">>, <<"/", "m", "0">>,
           <<"rw">>, <<"-">>, <<"cgroup">>, <<"cgroup">>, RwCpu>>, " ")

\* the same mount with two optional fields, mounted at /m2
MiV1MultiOpt ==
    Join(<<<<"7">>, <<"5">>, <<"0", ":", "6">>, <<"/">>, <<"/", "m", "2">>, <<"rw">>,
           <<"shared", ":", "7">>, <<"master", ":", "1">>, <<"-">>, <<"cgroup">>,
           <<"cgroup">>, RwCpu>>, " ")

\* a cgroup v1 mount of another controller
MiV1Memory ==
    Join(<<<<"7">>, <<"5">>, <<"0", ":", "6">>, <<"/">>, <<"/", "m", "3">>, <<"rw">>,
           <<"shared", ":", "7">>, <<"-">>, <<"cgroup">>, <<"cgroup">>,
           <<"rw", ",", "memory">>>>, " ")

\* 8 5 0:7 / /sys/fs/cgroup rw shared:8 - cgroup2 cgroup2 rw
MiV2 ==
    Join(<<<<"8">>, <<"5">>, <<"0", ":", "7">>, <<"/">>, MntUnified, <<"rw">>,
           <<"shared", ":", "8">>, <<"-">>, <<"cgroup", "2">>, <<"cgroup", "2">>,
           <<"rw">>>>, " ")

\* a cgroup v1 "cpu" mount whose line lacks the "-" separator
MiNoSeparator ==
    Join(<<<<"7">>, <<"5">>, <<"0", ":", "6">>, <<"/">>, <<"/", "m", "4">>, <<"rw">>,
           <<"shared", ":", "7">>, <<"cgroup">>, <<"cgroup">>, RwCpu>>, " ")

\* a mount of another filesystem type
MiProc ==
    Join(<<<<"9">>, <<"5">>, <<"0", ":", "4">>, <<"/">>, <<"/", "proc">>, <<"rw">>,
           <<"shared", ":", "9">>, <<"-">>, <<"proc">>, <<"proc">>, <<"rw">>>>, " ")

\* a line cut short
MiShort == Join(<<<<"7">>, <<"5">>>>, " ")

\* a line that ends at the separator
MiEndsAtSep ==
    Join(<<<<"7">>, <<"5">>, <<"0", ":", "6">>, <<"/">>, <<"/", "m", "5">>, <<"rw">>,
           <<"-">>>>, " ")

\* a cgroup v1 line without super options
MiV1NoOpts ==
    Join(<<<<"7">>, <<"5">>, <<"0", ":", "6">>, <<"/">>, <<"/", "m", "6">>, <<"rw">>,
           <<"-">>, <<"cgroup">>, <<"cgroup">>>>, " ")

MountLines ==
    {MiV1OneOpt, MiV1ZeroOpt, MiV1MultiOpt, MiV1Memory, MiV2, MiNoSeparator, MiProc,
     MiShort, MiEndsAtSep, MiV1NoOpts}

InitMount ==
    /\ ProcessUnstarted
    /\ arg \in [readable : {TRUE}, lines : SeqsUpTo(MountLines, MaxMountLines),
                version : CgroupVersion]
               \cup [readable : {FALSE}, lines : {<<>>}, version : CgroupVersion]
    /\ out = None

MountFiles(a) ==
    IF a.readable THEN ProcSelfMountinfo :> FileOf(a.lines) ELSE NoFiles

ApplyMountInfoLoadCpu ==
    /\ out = None
    /\ out' = Some(MountInfoLoadCpu(MountFiles(arg), ProcSelfMountinfo, arg.version))
    /\ UNCHANGED <<arg, procVars>>

NextMount == ApplyMountInfoLoadCpu

SpecMount == InitMount /\ [][NextMount]_vars

\* the line is a cgroup mount of the version: five leading fields, then any
\* number of optional fields, "-", the filesystem type ("cgroup" with "cpu"
\* among the super options two fields later, or "cgroup2")
IsMountOf(l, version) ==
    LET f == Split(l, " ")
    IN  /\ Len(f) >= 5
        /\ \E j \in 6..Len(f) :
              /\ f[j] = <<"-">>
              /\ \A i \in 6..(j - 1) : f[i] # <<"-">>
              /\ Len(f) >= j + 1
              /\ IF version = V1
                 THEN /\ f[j + 1] = <<"cgroup">>
                      /\ Len(f) >= j + 3
                      /\ \E c \in 1..Len(Split(f[j + 3], ",")) :
                             Split(f[j + 3], ",")[c] = <<"cpu">>
                 ELSE f[j + 1] = <<"cgroup", "2">>

\* C9: MountInfo::load_cpu returns the first line of the table that is a cgroup
\* mount of the requested version, root from field 3 and mount point from
\* field 4 however many optional fields precede "-"; other lines are skipped;
\* None only when no line matches
C9_FirstMatch ==
    IsSome(out) =>
        LET r       == Unwrap(out)
            matches == {i \in 1..Len(arg.lines) : IsMountOf(arg.lines[i], arg.version)}
        IN  IF matches = {} THEN r = None
            ELSE LET first == CHOOSE i \in matches : \A j \in matches : i <= j
                     f     == Split(arg.lines[first], " ")
                 IN  r = Some([version |-> arg.version, root |-> f[4],
                               mount_point |-> f[5]])

\* a line without "-" is skipped and the zero-optional-field line after it found
C9_Witness ==
    /\ arg.lines = <<MiNoSeparator, MiV1ZeroOpt>>
    /\ arg.version = V1
    /\ out = Some(Some([version |-> V1, root |-> <<"/", "a">>,
                        mount_point |-> <<"/", "m", "0">>]))

(* ---- Cgroup::translate ---- *)

PathSymbols == {"/", "a", "b"}

\* the absolute path strings with at most n symbols after the leading "/"
AbsPaths(n) == {<<"/">> \o t : t \in SeqsUpTo(PathSymbols, n)}

MountPointCpu == <<"/", "sys", "/", "fs", "/", "cgroup", "/", "cpu">>

Docker01abcd == <<"/", "docker", "/", "01abcd">>

\* the (root, subsystem path) pairs of tests::v1::test_cgroup_mount
TestCgroupMountCases ==
    {[root |-> <<"/">>, base |-> <<"/">>],
     [root |-> Docker01abcd, base |-> Docker01abcd],
     [root |-> Docker01abcd, base |-> Docker01abcd \o <<"/">>],
     [root |-> Docker01abcd, base |-> Docker01abcd \o <<"/", "large">>],
     [root |-> Docker01abcd, base |-> <<"/">>],
     [root |-> Docker01abcd, base |-> <<"/", "docker">>],
     [root |-> Docker01abcd, base |-> <<"/", "elsewhere">>],
     [root |-> Docker01abcd, base |-> Docker01abcd \o <<"-other-dir">>]}

InitTranslate ==
    /\ ProcessUnstarted
    /\ arg \in [root : AbsPaths(MaxRootLen), base : AbsPaths(MaxBaseLen)]
               \cup TestCgroupMountCases
    /\ out = None

ApplyCgroupTranslate ==
    /\ out = None
    /\ \E version \in CgroupVersion :
          out' = Some(CgroupTranslate(
                          [version |-> version, root |-> arg.root,
                           mount_point |-> MountPointCpu],
                          [version |-> version, base |-> arg.base]))
    /\ UNCHANGED <<arg, procVars>>

NextTranslate == ApplyCgroupTranslate

SpecTranslate == InitTranslate /\ [][NextTranslate]_vars

\* the names between the separators of an absolute path string
Segments(s) ==
    LET pieces == Split(s, "/")
    IN  SelectSeq(pieces, LAMBDA piece : piece # <<>>)

IsLeadingRun(short, long) ==
    Len(short) <= Len(long) /\ SubSeq(long, 1, Len(short)) = short

\* the lexed mount point /sys/fs/cgroup/cpu
MountPointCpuPath == <<RootDir, <<"sys">>, <<"fs">>, <<"cgroup">>, <<"cpu">>>>

\* C8: Cgroup::translate succeeds exactly when the segments of the mount root
\* are a leading run of the segments of the subsystem path, and then yields the
\* mount point followed by the remaining segments; a root that is only a
\* string prefix of the path does not match
C8_SegmentWise ==
    IsSome(out) =>
        LET r     == Unwrap(out)
            rootS == Segments(arg.root)
            baseS == Segments(arg.base)
        IN  IF IsLeadingRun(rootS, baseS)
            THEN /\ IsSome(r)
                 /\ Unwrap(r).base =
                       MountPointCpuPath \o SubSeq(baseS, Len(rootS) + 1, Len(baseS))
            ELSE r = None

\* root /docker/01abcd and path /docker/01abcd/large give /sys/fs/cgroup/cpu/large
C8_Witness ==
    /\ arg.root = Docker01abcd
    /\ arg.base = Docker01abcd \o <<"/", "large">>
    /\ IsSome(out) /\ IsSome(Unwrap(out))
    /\ Unwrap(Unwrap(out)).base = MountPointCpuPath \o <<<<"large">>>>

-----------------------------------------------------------------------------
(* The process: threads calling the public counters and cgroups_num_cpus    *)
(* on a machine whose /proc and cgroup files are one of the scenarios.      *)

\* a file at path, if there is text for it
FileAt(path, text) == IF IsSome(text) THEN path :> Unwrap(text) ELSE NoFiles

\* the directory the v1 mount of MiV1OneOpt shows, and that of the v2 mount
DirCpu == Components(MntCpu)

DirUnified == Components(MntUnified)

V1Quota(dir, q, period) ==
    (Push(dir, <<<<"cpu.cfs_quota_us">>>>) :> (q \o <<"\n">>))
    @@ (Push(dir, <<<<"cpu.cfs_period_us">>>>) :> (period \o <<"\n">>))

V2Max(dir, text) == Push(dir, <<<<"cpu.max">>>>) :> (text \o <<"\n">>)

ProcFiles(cg, mi, cpuinfo) ==
    FileAt(ProcSelfCgroup, cg) @@ FileAt(ProcSelfMountinfo, mi)
    @@ FileAt(ProcCpuinfo, cpuinfo)

\* /proc/cpuinfo of two sockets with two cores each
CpuinfoTwoByTwo ==
    FileOf(<<<<"processor", "\t", ":", " ", "0">>,
             <<"physical", " ", "id", "\t", ":", " ", "0">>,
             <<"cpu", " ", "cores", "\t", ":", " ", "2">>,
             <<>>,
             <<"processor", "\t", ":", " ", "1">>,
             <<"physical", " ", "id", "\t", ":", " ", "1">>,
             <<"cpu", " ", "cores", "\t", ":", " ", "2">>>>)

\* /proc/cpuinfo announcing no cores
CpuinfoZeroCores ==
    FileOf(<<<<"physical", " ", "id", "\t", ":", " ", "0">>,
             <<"cpu", " ", "cores", "\t", ":", " ", "0">>>>)

\* /proc/cpuinfo with a value that is no number
CpuinfoBadValue ==
    FileOf(<<<<"physical", " ", "id", "\t", ":", " ", "x">>,
             <<"cpu", " ", "cores", "\t", ":", " ", "2">>>>)

\* /proc/cpuinfo whose core counts sum to 2^WordBits
CpuinfoOverflow ==
    FileOf(<<<<"physical", " ", "id", ":", " ", "0">>,
             <<"cpu", " ", "cores", ":", " ">> \o FormatNat(Pow2(WordBits - 1)),
             <<"physical", " ", "id", ":", " ", "1">>,
             <<"cpu", " ", "cores", ":", " ">> \o FormatNat(Pow2(WordBits - 1))>>)

\* v1, quota 60 over period 10: six CPUs
ScV1Good ==
    ProcFiles(Some(FileOf(<<CgV1Memory, CgV1Cpu>>)), Some(FileOf(<<MiProc, MiV1OneOpt>>)),
              Some(CpuinfoTwoByTwo))
    @@ V1Quota(DirCpu, <<"6", "0">>, <<"1", "0">>)

\* v2, "11 10": two CPUs after rounding up
ScV2Ceil ==
    ProcFiles(Some(FileOf(<<CgV2>>)), Some(FileOf(<<MiProc, MiV2>>)), None)
    @@ V2Max(DirUnified, <<"1", "1", " ", "1", "0">>)

\* v2, "10 10": one CPU
ScV2One ==
    ProcFiles(Some(FileOf(<<CgV2>>)), Some(FileOf(<<MiV2>>)), Some(CpuinfoTwoByTwo))
    @@ V2Max(DirUnified, <<"1", "0", " ", "1", "0">>)

\* v2 without a limit: "max 10"
ScV2Max ==
    ProcFiles(Some(FileOf(<<CgV2>>)), Some(FileOf(<<MiV2>>)), Some(CpuinfoZeroCores))
    @@ V2Max(DirUnified, <<"max", " ", "1", "0">>)

\* no /proc files at all
ScNoProc == NoFiles

\* a membership descriptor without a qualifying line
ScNoSubsys ==
    ProcFiles(Some(FileOf(<<CgV1Memory, CgGarbage>>)), Some(FileOf(<<MiV1OneOpt>>)),
              Some(CpuinfoBadValue))
    @@ V1Quota(DirCpu, <<"6", "0">>, <<"1", "0">>)

\* a v1 subsystem where only cgroup2 is mounted
ScMismatch ==
    ProcFiles(Some(FileOf(<<CgV1Cpu>>)), Some(FileOf(<<MiV2>>)), Some(CpuinfoOverflow))
    @@ V2Max(DirUnified, <<"1", "1", " ", "1", "0">>)
    @@ V1Quota(DirUnified, <<"6", "0">>, <<"1", "0">>)

\* the mount's root /a does not hold the subsystem path /
ScNotUnderRoot ==
    ProcFiles(Some(FileOf(<<CgV1Cpu>>)), Some(FileOf(<<MiV1ZeroOpt>>)), None)
    @@ V1Quota(Components(<<"/", "m", "0">>), <<"6", "0">>, <<"1", "0">>)

\* v1 with the quota files missing
ScNoQuotaFile ==
    ProcFiles(Some(FileOf(<<CgV1Cpu>>)), Some(FileOf(<<MiV1OneOpt>>)), None)

\* v1 without a limit: cpu.cfs_quota_us is -1
ScV1Unlimited ==
    ProcFiles(Some(FileOf(<<CgV1Cpu>>)), Some(FileOf(<<MiV1OneOpt>>)), None)
    @@ V1Quota(DirCpu, <<"-", "1">>, <<"1", "0">>)

\* v1 with period 0
ScZeroPeriod ==
    ProcFiles(Some(FileOf(<<CgV1Cpu>>)), Some(FileOf(<<MiV1OneOpt>>)), None)
    @@ V1Quota(DirCpu, <<"6", "0">>, <<"0">>)

\* v1 with quota 0
ScZeroQuota ==
    ProcFiles(Some(FileOf(<<CgV1Cpu>>)), Some(FileOf(<<MiV1OneOpt>>)), None)
    @@ V1Quota(DirCpu, <<"0">>, <<"1", "0">>)

\* the scenarios in which load_cgroups finds a quota of at least 1
QuotaScenarios == {ScV1Good, ScV2Ceil, ScV2One}

\* the scenarios in which a step of load_cgroups fails, or the quota is 0
FailureScenarios ==
    {ScV2Max, ScNoProc, ScNoSubsys, ScMismatch, ScNotUnderRoot, ScNoQuotaFile,
     ScV1Unlimited, ScZeroPeriod, ScZeroQuota}

Scenarios == QuotaScenarios \cup FailureScenarios

\* the machines: the affinity mask answers, or sysconf does (-1: it fails)
Hosts ==
    [affinity_ok : {TRUE}, nset : 1..MaxCpus, sysconf : {MaxCpus}, miri : BOOLEAN]
    \cup [affinity_ok : {FALSE}, nset : {1}, sysconf : -1..MaxCpus, miri : {FALSE}]

\* load_cgroups("/proc/self/cgroup", "/proc/self/mountinfo") over the scenarios
LoadCgroupsAt ==
    [files \in Scenarios |-> LoadCgroups(files, ProcSelfCgroup, ProcSelfMountinfo)]

\* get_num_physical_cpus over the scenarios and the two kinds of build
GetNumPhysicalCpusAt ==
    [files \in Scenarios |->
        [overflow_checks \in BOOLEAN |-> GetNumPhysicalCpus(files, overflow_checks)]]

\* the match of init_cgroups on the quota load_cgroups returned
InitCgroupsMatch(q, h) ==
    IF h.miri \/ ~IsSome(q) \/ q = Some(0) THEN 0
    ELSE Min(Unwrap(q), LogicalCpus(h))

\* what init_cgroups leaves in CGROUPS_CPUS for these files on this host
InitCgroupsValue(files, h) == InitCgroupsMatch(LoadCgroupsAt[files], h)

Inc(n) == Min(n + 1, 2)

Returned(t) == pc[t] = "idle" /\ api[t] # "none"

\* a thread calls get_num_cpus
CallGetNumCpus(t) ==
    /\ pc[t] = "idle"
    /\ api' = [api EXCEPT ![t] = "get_num_cpus"]
    /\ ret' = [ret EXCEPT ![t] = Some(GetNumCpus)]
    /\ stale' = [stale EXCEPT ![t] = FALSE]
    /\ UNCHANGED <<fs, host, threads, ONCE, CGROUPS_CPUS, pc, quota, init_runs,
                   stores, loads, first_ret, arg, out>>

\* a thread calls get_num_physical_cpus
CallGetNumPhysicalCpus(t) ==
    /\ pc[t] = "idle"
    /\ \E overflow_checks \in BOOLEAN :
          LET r == GetNumPhysicalCpusAt[fs][overflow_checks]
          IN  /\ pc' = [pc EXCEPT ![t] = IF r.panic THEN "panicked" ELSE "idle"]
              /\ ret' = [ret EXCEPT ![t] = IF r.panic THEN None ELSE Some(r.val)]
    /\ api' = [api EXCEPT ![t] = "get_num_physical_cpus"]
    /\ stale' = [stale EXCEPT ![t] = FALSE]
    /\ UNCHANGED <<fs, host, threads, ONCE, CGROUPS_CPUS, quota, init_runs, stores,
                   loads, first_ret, arg, out>>

\* a thread enters cgroups_num_cpus
CallCgroupsNumCpus(t) ==
    /\ pc[t] = "idle"
    /\ pc' = [pc EXCEPT ![t] = "call_once"]
    /\ api' = [api EXCEPT ![t] = "cgroups_num_cpus"]
    /\ ret' = [ret EXCEPT ![t] = None]
    /\ stale' = [stale EXCEPT ![t] = FALSE]
    /\ UNCHANGED <<fs, host, threads, ONCE, CGROUPS_CPUS, quota, init_runs, stores,
                   loads, first_ret, arg, out>>

\* call_once as a plain flag test: whoever finds the Once not complete runs
\* the initializer
CallOnceUnsynchronized(t) ==
    /\ pc[t] = "call_once"
    /\ \/ /\ ONCE # "COMPLETE"
          /\ ONCE' = "RUNNING"
          /\ pc' = [pc EXCEPT ![t] = "init"]
          /\ init_runs' = Inc(init_runs)
       \/ /\ ONCE = "COMPLETE"
          /\ pc' = [pc EXCEPT ![t] = "load"]
          /\ UNCHANGED <<ONCE, init_runs>>
    /\ UNCHANGED <<fs, host, threads, CGROUPS_CPUS, api, quota, ret, stale, stores,
                   loads, first_ret, arg, out>>

\* ONCE.call_once(init_cgroups): the first caller runs the initializer, a
\* caller that finds it running waits, a caller that finds it complete passes
CallOnce(t) ==
    /\ pc[t] = "call_once"
    /\ \/ /\ ONCE = "INCOMPLETE"
          /\ ONCE' = "RUNNING"
          /\ pc' = [pc EXCEPT ![t] = "init"]
          /\ init_runs' = Inc(init_runs)
       \/ /\ ONCE = "COMPLETE"
          /\ pc' = [pc EXCEPT ![t] = "load"]
          /\ UNCHANGED <<ONCE, init_runs>>
    /\ UNCHANGED <<fs, host, threads, CGROUPS_CPUS, api, quota, ret, stale, stores,
                   loads, first_ret, arg, out>>

\* init_cgroups up to the result of load_cgroups (nothing is read under miri)
InitCgroupsLoad(t) ==
    /\ pc[t] = "init"
    /\ IF host.miri
       THEN /\ pc' = [pc EXCEPT ![t] = "init_done"]
            /\ UNCHANGED <<quota, loads>>
       ELSE /\ quota' = [quota EXCEPT ![t] =
                            LoadCgroups(fs, ProcSelfCgroup, ProcSelfMountinfo)]
            /\ loads' = Inc(loads)
            /\ pc' = [pc EXCEPT ![t] = "init_store"]
    /\ UNCHANGED <<fs, host, threads, ONCE, CGROUPS_CPUS, api, ret, stale, init_runs,
                   stores, first_ret, arg, out>>

\* the rest of init_cgroups: a non-zero quota, clamped, goes into the cache
InitCgroupsStore(t) ==
    /\ pc[t] = "init_store"
    /\ IF IsSome(quota[t]) /\ Unwrap(quota[t]) # 0
       THEN /\ CGROUPS_CPUS' = Min(Unwrap(quota[t]), LogicalCpus(host))
            /\ stores' = Inc(stores)
       ELSE UNCHANGED <<CGROUPS_CPUS, stores>>
    /\ quota' = [quota EXCEPT ![t] = None]
    /\ pc' = [pc EXCEPT ![t] = "init_done"]
    /\ UNCHANGED <<fs, host, threads, ONCE, api, ret, stale, init_runs, loads,
                   first_ret, arg, out>>

\* call_once forgetting that the initializer has run
OnceNeverCompletes(t) ==
    /\ pc[t] = "init_done"
    /\ ONCE' = "INCOMPLETE"
    /\ pc' = [pc EXCEPT ![t] = "load"]
    /\ UNCHANGED <<fs, host, threads, CGROUPS_CPUS, api, quota, ret, stale, init_runs,
                   stores, loads, first_ret, arg, out>>

\* call_once returns in the thread that ran the initializer
OnceComplete(t) ==
    /\ pc[t] = "init_done"
    /\ ONCE' = "COMPLETE"
    /\ pc' = [pc EXCEPT ![t] = "load"]
    /\ UNCHANGED <<fs, host, threads, CGROUPS_CPUS, api, quota, ret, stale, init_runs,
                   stores, loads, first_ret, arg, out>>

\* CGROUPS_CPUS.load(Acquire) and the return of cgroups_num_cpus
CgroupsNumCpusLoad(t) ==
    /\ pc[t] = "load"
    /\ LET r == CachedCpus(CGROUPS_CPUS)
       IN  /\ ret' = [ret EXCEPT ![t] = r]
           /\ stale' = [stale EXCEPT ![t] = (r # CachedCpus(InitCgroupsValue(fs, host)))]
           /\ first_ret' = IF IsSome(first_ret) THEN first_ret ELSE Some(r)
    /\ pc' = [pc EXCEPT ![t] = "idle"]
    /\ UNCHANGED <<fs, host, threads, ONCE, CGROUPS_CPUS, api, quota, init_runs,
                   stores, loads, arg, out>>

ProcessStart(ts) ==
    /\ threads = ts
    /\ ONCE = "INCOMPLETE"
    /\ CGROUPS_CPUS = 0
    /\ pc = [t \in ts |-> "idle"]
    /\ api = [t \in ts |-> "none"]
    /\ quota = [t \in ts |-> None]
    /\ ret = [t \in ts |-> None]
    /\ stale = [t \in ts |-> FALSE]
    /\ init_runs = 0
    /\ stores = 0
    /\ loads = 0
    /\ first_ret = None
    /\ arg = None
    /\ out = None

\* the contents the files take in turn under a running process
ChangingFiles == {ScV1Good, ScV2Ceil, ScV2One, ScZeroQuota, ScNoProc, ScMismatch}

\* the files change under the running process
ChangeFiles ==
    /\ fs' \in ChangingFiles \ {fs}
    /\ UNCHANGED <<host, threads, ONCE, CGROUPS_CPUS, pc, api, quota, ret, stale,
                   init_runs, stores, loads, first_ret, arg, out>>

(* ---- several threads, the files changing ---- *)

Init ==
    /\ fs \in ChangingFiles
    /\ host \in [affinity_ok : {TRUE}, nset : 1..MaxCpus, sysconf : {MaxCpus},
                 miri : {FALSE}]
    /\ ProcessStart(1..NThreads)

Next ==
    \/ ChangeFiles
    \/ \E t \in threads : CallGetNumCpus(t)
    \/ \E t \in threads : CallGetNumPhysicalCpus(t)
    \/ \E t \in threads : CallCgroupsNumCpus(t)
    \/ \E t \in threads : CallOnce(t)
    \/ \E t \in threads : InitCgroupsLoad(t)
    \/ \E t \in threads : InitCgroupsStore(t)
    \/ \E t \in threads : OnceComplete(t)
    \/ \E t \in threads : CgroupsNumCpusLoad(t)

Spec == Init /\ [][Next]_vars

(* ---- one thread, every scenario and machine, the files at rest ---- *)

InitSeq ==
    /\ fs \in Scenarios
    /\ host \in Hosts
    /\ ProcessStart({1})

NextSeq ==
    \/ \E t \in threads : CallGetNumCpus(t)
    \/ \E t \in threads : CallGetNumPhysicalCpus(t)
    \/ \E t \in threads : CallCgroupsNumCpus(t)
    \/ \E t \in threads : CallOnce(t)
    \/ \E t \in threads : InitCgroupsLoad(t)
    \/ \E t \in threads : InitCgroupsStore(t)
    \/ \E t \in threads : OnceComplete(t)
    \/ \E t \in threads : CgroupsNumCpusLoad(t)

SpecSeq == InitSeq /\ [][NextSeq]_vars

\* the initializer runs only while the cache still holds its initial 0
\* (the debug_assert at the head of init_cgroups)
InitCgroupsAssertion ==
    \A t \in threads : pc[t] = "init" => CGROUPS_CPUS = 0

InCgroupsNumCpus(t) == api[t] = "cgroups_num_cpus"

Initializing(t) == pc[t] \in {"init", "init_store", "init_done"}

\* C1: however many threads call cgroups_num_cpus at once, init_cgroups runs
\* at most once, in one thread at a time; no call passes call_once, let alone
\* returns, before the initializer has finished; and what a call returned is
\* what the cache holds, so no call saw the value from before a store
C1_InitOnceBeforeAnyLoad ==
    /\ init_runs <= 1
    /\ \A t, u \in threads : (Initializing(t) /\ Initializing(u)) => t = u
    /\ \A t \in threads :
          /\ pc[t] = "load" => ONCE = "COMPLETE"
          /\ (Returned(t) /\ InCgroupsNumCpus(t)) =>
                 (ONCE = "COMPLETE" /\ ret[t] = CachedCpus(CGROUPS_CPUS))

\* a second first caller waits in call_once while the initializer, having read
\* a quota, has not stored it yet
C1_Witness ==
    \E t, u \in threads :
        /\ t # u
        /\ pc[t] = "init_store" /\ IsSome(quota[t]) /\ Unwrap(quota[t]) > 0
        /\ pc[u] = "call_once"
        /\ ONCE = "RUNNING"

\* C2: CGROUPS_CPUS is stored to at most once and keeps its value once it is
\* set or the initializer is through; the files are read by at most one
\* load_cgroups; every return of cgroups_num_cpus equals the first one,
\* whatever the files have become
C2_WriteOnce ==
    [][/\ (CGROUPS_CPUS # 0 \/ ONCE = "COMPLETE") => CGROUPS_CPUS' = CGROUPS_CPUS
       /\ stores' <= 1
       /\ loads' <= 1
       /\ \A t \in threads :
             (pc'[t] = "idle" /\ api'[t] = "cgroups_num_cpus")
                 => first_ret' = Some(ret'[t])]_vars

\* two calls have returned the same value although the files the second one
\* found would give another
C2_Witness ==
    \E t, u \in threads :
        /\ t # u
        /\ Returned(t) /\ InCgroupsNumCpus(t) /\ ~stale[t]
        /\ Returned(u) /\ InCgroupsNumCpus(u) /\ stale[u]
        /\ ret[t] = ret[u] /\ IsSome(ret[u])
        /\ stores = 1 /\ loads = 1

\* C3 as stated: where the pipeline finds a quota q > 0 on a host with L
\* logical CPUs, get_num_cpus returns min(q, L), so never more than L
C3_AsStated ==
    \A t \in threads :
        (Returned(t) /\ api[t] = "get_num_cpus" /\ ~host.miri
            /\ IsSome(LoadCgroupsAt[fs]) /\ LoadCgroupsAt[fs] # Some(0))
        => (/\ ret[t] = Some(Min(Unwrap(LoadCgroupsAt[fs]), LogicalCpus(host)))
            /\ Unwrap(ret[t]) <= LogicalCpus(host))

\* C4: get_num_cpus and get_num_physical_cpus return at least 1 whatever the
\* files hold, and cgroups_num_cpus never returns Some(0)
C4_NeverZero ==
    \A t \in threads :
        Returned(t) =>
            IF InCgroupsNumCpus(t) THEN ret[t] # Some(0)
            ELSE IsSome(ret[t]) /\ Unwrap(ret[t]) >= 1

\* get_num_physical_cpus has returned on a machine whose /proc/cpuinfo
\* announces no cores
C4_Witness ==
    \E t \in threads :
        /\ Returned(t) /\ api[t] = "get_num_physical_cpus"
        /\ fs = ScV2Max
        /\ IsSome(ret[t]) /\ Unwrap(ret[t]) >= 1

\* where a step of load_cgroups fails or the quota is 0: load_cgroups gives
\* None or Some(0), the cache stays 0 and cgroups_num_cpus returns None
NoQuotaOnFailure ==
    fs \in FailureScenarios =>
        /\ LoadCgroupsAt[fs] \in {None, Some(0)}
        /\ CGROUPS_CPUS = 0
        /\ \A t \in threads : (Returned(t) /\ InCgroupsNumCpus(t)) => ret[t] = None

\* C5 as stated: on such a failure load_cgroups gives None or Some(0), the
\* cache stays 0, cgroups_num_cpus returns None, and the caller, get_num_cpus,
\* falls back to the logical CPU count
C5_AsStated ==
    /\ NoQuotaOnFailure
    /\ fs \in FailureScenarios =>
          \A t \in threads :
              (Returned(t) /\ api[t] = "get_num_cpus")
                  => ret[t] = Some(LogicalCpus(host))

(* ---- load_cgroups ---- *)

\* longest membership descriptor and mount table of the harness, in lines
MaxLoadLines == 2

LoadSubsysLines == {CgV1Cpu, CgV2, CgV1Memory}

LoadMountLines == {MiV1OneOpt, MiV2, MiV1ZeroOpt, MiProc}

\* both mounted directories hold the v1 files (60 / 10: six CPUs) and the v2
\* file (30 / 10: three CPUs)
BothKindsOfQuota ==
    V1Quota(DirCpu, <<"6", "0">>, <<"1", "0">>)
    @@ V2Max(DirCpu, <<"3", "0", " ", "1", "0">>)
    @@ V1Quota(DirUnified, <<"6", "0">>, <<"1", "0">>)
    @@ V2Max(DirUnified, <<"3", "0", " ", "1", "0">>)

LoadFiles(a) ==
    ProcFiles(Some(FileOf(a.cg)), Some(FileOf(a.mi)), None)
    @@ (IF a.quota_files THEN BothKindsOfQuota ELSE NoFiles)

InitLoad ==
    /\ ProcessUnstarted
    /\ arg \in [cg : SeqsUpTo(LoadSubsysLines, MaxLoadLines),
                mi : SeqsUpTo(LoadMountLines, MaxLoadLines),
                quota_files : BOOLEAN]
    /\ out = None

ApplyLoadCgroups ==
    /\ out = None
    /\ out' = Some(LoadCgroupsRun(LoadFiles(arg), ProcSelfCgroup, ProcSelfMountinfo))
    /\ UNCHANGED <<arg, procVars>>

NextLoad == ApplyLoadCgroups

SpecLoad == InitLoad /\ [][NextLoad]_vars

\* C10: the MountInfo handed to Cgroup::translate has the version of the Subsys
\* found, the Cgroup carries that version and its quota comes from the files of
\* that version; with no mount of the Subsys's version in the table there is
\* no Cgroup and load_cgroups returns None
C10_VersionsMatch ==
    IsSome(out) =>
        LET r == Unwrap(out)
        IN  /\ IsSome(r.mntinfo) => Unwrap(r.mntinfo).version = Unwrap(r.subsys).version
            /\ IsSome(r.cgroup) => Unwrap(r.cgroup).version = Unwrap(r.subsys).version
            /\ IsSome(r.result) =>
                  r.result = Some(IF Unwrap(r.subsys).version = V1 THEN 6 ELSE 3)
            /\ (/\ IsSome(r.subsys)
                /\ \A i \in 1..Len(arg.mi) :
                       ~IsMountOf(arg.mi[i], Unwrap(r.subsys).version))
               => (r.cgroup = None /\ r.result = None)

\* a v1 subsystem, a mount table holding only the cgroup2 mount: no Cgroup
C10_Witness ==
    /\ arg.cg = <<CgV1Cpu>> /\ arg.mi = <<MiV2>> /\ arg.quota_files
    /\ IsSome(out)
    /\ IsSome(Unwrap(out).subsys) /\ Unwrap(Unwrap(out).subsys).version = V1
    /\ Unwrap(out).cgroup = None /\ Unwrap(out).result = None

====
